---- MODULE Spec2Model ----
(***************************************************************************)
(* State model of the panopticon-tui dashboard engine (src/src/app.rs):    *)
(* TabsState, StatefulList, ZMXTab, SlickTab, AkkaActorTreeTab and App,    *)
(* and of the Zookeeper ensemble status utility (src/src/main.rs), a       *)
(* program of its own: its run is the variable ensemble, None in every     *)
(* specification of the dashboard.                                         *)
(*                                                                         *)
(* Conventions                                                             *)
(*  - Option<T> is a sequence of length 0 (None) or 1 (Some(x)).           *)
(*  - A method is an operator from the receiver's value (and arguments) to *)
(*    a record [st |-> receiver afterwards, fault |-> "none" or the panic  *)
(*    message]; when a method panics, st is the receiver as the panic      *)
(*    left it.                                                             *)
(*  - usize is 64 bits wide.  TLC's integers are narrower, so a usize is   *)
(*    kept as the two's-complement representative nearest to 0: v stands   *)
(*    for v when v >= 0 and for 2^64 + v when v < 0.  The usize operators  *)
(*    below compute on representatives.                                    *)
(*  - Arithmetic overflow panics in a build with overflow checks (debug)   *)
(*    and wraps in a build without (release); overflow_checks is the build *)
(*    the program was compiled as.                                         *)
(*  - A dump text is a sequence of one-character strings, so that lines()  *)
(*    can be computed from it; labels, titles and messages are only built  *)
(*    and compared, and are TLA+ strings.                                  *)
(***************************************************************************)
EXTENDS Integers, Sequences, FiniteSets, TLC

VARIABLES
    overflow_checks,  \* the build: TRUE = overflow checks on (debug profile)
    fault,            \* "none", or the message of the panic that ended the run
    should_quit,      \* App.should_quit
    exit_reason,      \* App.exit_reason : Option<String>
    tabs,             \* App.tabs : TabsState
    zmx,              \* App.zmx : Option<ZMXTab>
    slick,            \* App.slick : Option<SlickTab>
    actor_tree,       \* App.actor_tree : Option<AkkaActorTreeTab>
    appended,         \* history variable: every value handed to each buffer's append, in order
    delivered,        \* history variable: the fiber snapshot last handed to the renderer run
    ensemble          \* main.rs: the run of the ensemble status utility, None where App runs

vars == <<overflow_checks, fault, should_quit, exit_reason, tabs, zmx, slick,
          actor_tree, appended, delivered, ensemble>>

----------------------------------------------------------------------------
(* Option *)

None == <<>>

Some(x) == <<x>>

IsSome(o) == o # <<>>

Unwrap(o) == o[1]

NoFault == "none"

Ok(s) == [st |-> s, fault |-> NoFault]

Panicked(s, msg) == [st |-> s, fault |-> msg]

----------------------------------------------------------------------------
(* usize arithmetic on representatives *)

UsizeBits == 64

RECURSIVE PowMod(_, _, _)
\* b^e modulo n, n > 0
PowMod(b, e, n) == IF e = 0 THEN 1 % n ELSE (b * PowMod(b, e - 1, n)) % n

\* unsigned a < b
usize_lt(a, b) == IF (a >= 0) = (b >= 0) THEN a < b ELSE a >= 0

usize_ge(a, b) == ~usize_lt(a, b)

\* a - b: the difference modulo 2^64, and whether it wrapped
usize_sub(a, b) == [val |-> a - b, overflow |-> usize_lt(a, b)]

\* a + b for a small b >= 0
usize_add(a, b) == [val |-> a + b, overflow |-> a < 0 /\ a + b >= 0]

\* a % n for n > 0
usize_rem(a, n) == IF a >= 0 THEN a % n ELSE (PowMod(2, UsizeBits, n) + a) % n

\* v[i] on a Vec of length Len(v) (0-based): in bounds or not
InBounds(v, i) == i >= 0 /\ i < Len(v)

----------------------------------------------------------------------------
(* Strings *)

NL == "\n"

RECURSIVE CountNL(_)
CountNL(s) == IF s = <<>> THEN 0 ELSE (IF Head(s) = NL THEN 1 ELSE 0) + CountNL(Tail(s))

\* s.lines().count(): every "\n" ends a line, and a non-empty rest after the
\* last "\n" is a line too
lines_len(s) ==
    CountNL(s) + (IF s # <<>> /\ s[Len(s)] # NL THEN 1 ELSE 0)

U16 == 65536

\* ZMXTab::prepare_dump
prepare_dump(s) == <<s, lines_len(s) % U16>>

----------------------------------------------------------------------------
(* StatefulList<T>: [state |-> the ListState's selected index (Option<usize>),
                     items |-> Vec<T>] *)

OverflowSub == "attempt to subtract with overflow"

OverflowAdd == "attempt to add with overflow"

RemByZero == "attempt to calculate the remainder with a divisor of zero"

OutOfBounds == "index out of bounds"

UnwrapNone == "called Option::unwrap on a None value"

\* StatefulList::with_items
StatefulList_with_items(items) == [state |-> None, items |-> items]

\* StatefulList::next
StatefulList_next(l) ==
    IF IsSome(l.state)
    THEN LET i == Unwrap(l.state)
             d == usize_sub(Len(l.items), 1)
         IN  IF d.overflow /\ overflow_checks
             THEN Panicked(l, OverflowSub)
             ELSE IF usize_ge(i, d.val)
                  THEN Ok([l EXCEPT !.state = Some(0)])
                  ELSE LET a == usize_add(i, 1)
                       IN  IF a.overflow /\ overflow_checks
                           THEN Panicked(l, OverflowAdd)
                           ELSE Ok([l EXCEPT !.state = Some(a.val)])
    ELSE Ok([l EXCEPT !.state = Some(0)])

\* StatefulList::previous
StatefulList_previous(l) ==
    IF IsSome(l.state)
    THEN LET i == Unwrap(l.state)
         IN  IF i = 0
             THEN LET d == usize_sub(Len(l.items), 1)
                  IN  IF d.overflow /\ overflow_checks
                      THEN Panicked(l, OverflowSub)
                      ELSE Ok([l EXCEPT !.state = Some(d.val)])
             ELSE Ok([l EXCEPT !.state = Some(usize_sub(i, 1).val)])
    ELSE Ok([l EXCEPT !.state = Some(0)])

----------------------------------------------------------------------------
(* TabsState: [tabs |-> Vec<Tab>, index |-> usize], Tab = [kind, title] *)

TabKind == {"ZMX", "Slick", "AkkaActorTree"}

\* TabsState::new
TabsState_new(ts) == [tabs |-> ts, index |-> 0]

\* TabsState::next
TabsState_next(t) ==
    LET a == usize_add(t.index, 1)
    IN  IF a.overflow /\ overflow_checks
        THEN Panicked(t, OverflowAdd)
        ELSE IF Len(t.tabs) = 0
             THEN Panicked(t, RemByZero)
             ELSE Ok([t EXCEPT !.index = usize_rem(a.val, Len(t.tabs))])

\* previous that stops at the first tab
TabsState_previous_stopping(t) ==
    IF t.index # 0
    THEN Ok([t EXCEPT !.index = usize_sub(t.index, 1).val])
    ELSE Ok(t)

\* TabsState::previous
TabsState_previous(t) ==
    IF t.index # 0
    THEN Ok([t EXCEPT !.index = usize_sub(t.index, 1).val])
    ELSE LET d == usize_sub(Len(t.tabs), 1)
         IN  IF d.overflow /\ overflow_checks
             THEN Panicked(t, OverflowSub)
             ELSE Ok([t EXCEPT !.index = d.val])

\* TabsState::current: the tab, or the panic of the indexing
TabsState_current(t) ==
    IF InBounds(t.tabs, t.index)
    THEN Ok(t.tabs[t.index + 1])
    ELSE Panicked(t, OutOfBounds)

RECURSIVE MapTitle(_)
MapTitle(ts) == IF ts = <<>> THEN <<>> ELSE <<Head(ts).title>> \o MapTitle(Tail(ts))

\* TabsState::titles
TabsState_titles(t) == MapTitle(t.tabs)

----------------------------------------------------------------------------
(* widgets::tree::tree_list_widget, the forest renderer.

   A node is [id, parent_id : Option, ...]; a fiber carries status and dump,
   an actor carries name.  A snapshot is a Vec of nodes with unique ids.
   A label is a TLA+ string that is only built, never scanned; the
   box-drawing characters are written in ASCII: "|-" branch corner,
   "L-" end corner, "| " continuation segment, "  " blank segment. *)

NodeIds(nodes) == {nodes[i].id : i \in 1..Len(nodes)}

NodeOf(nodes, id) == nodes[CHOOSE i \in 1..Len(nodes) : nodes[i].id = id]

UniqueIds(nodes) == \A i, j \in 1..Len(nodes) : nodes[i].id = nodes[j].id => i = j

\* the node names a parent that is in the snapshot
HasParentIn(nodes, n) == IsSome(n.parent_id) /\ Unwrap(n.parent_id) \in NodeIds(nodes)

RECURSIVE Ancestors(_, _, _)
\* the ids met by following parent references from id, at most fuel times
Ancestors(nodes, id, fuel) ==
    IF fuel = 0 \/ ~HasParentIn(nodes, NodeOf(nodes, id))
    THEN {}
    ELSE LET p == Unwrap(NodeOf(nodes, id).parent_id)
         IN  {p} \cup Ancestors(nodes, p, fuel - 1)

SetMin(S) == CHOOSE x \in S : \A y \in S : x <= y

SetMax(S) == CHOOSE x \in S : \A y \in S : x >= y

\* a parent chain that comes back to id: the cycle is broken at its smallest
\* id, which is treated as an orphan root
CycleBreak(nodes, id) ==
    LET anc == Ancestors(nodes, id, Len(nodes))
    IN  id \in anc /\ id = SetMin(anc)

IsRoot(nodes, id) == ~HasParentIn(nodes, NodeOf(nodes, id)) \/ CycleBreak(nodes, id)

ChildrenOf(nodes, p) ==
    {id \in NodeIds(nodes) :
        ~IsRoot(nodes, id) /\ NodeOf(nodes, id).parent_id = Some(p)}

RECURSIVE SortAsc(_)
\* the ids of S, ascending
SortAsc(S) == IF S = {} THEN <<>> ELSE <<SetMin(S)>> \o SortAsc(S \ {SetMin(S)})

RECURSIVE Walk(_, _, _)
\* depth-first, pre-order over the siblings sibs (ascending), whose
\* ancestors contributed prefix: [left |-> prefix + connector + "#" + id, node]
Walk(nodes, sibs, prefix) ==
    IF sibs = <<>>
    THEN <<>>
    ELSE LET id   == Head(sibs)
             last == Len(sibs) = 1
             left == prefix \o (IF last THEN "L-" ELSE "|-") \o "#" \o ToString(id)
             kids == SortAsc(ChildrenOf(nodes, id))
         IN  <<[left |-> left, node |-> NodeOf(nodes, id)]>>
             \o Walk(nodes, kids, prefix \o (IF last THEN "  " ELSE "| "))
             \o Walk(nodes, Tail(sibs), prefix)

RECURSIVE Spaces(_)
Spaces(n) == IF n <= 0 THEN "" ELSE " " \o Spaces(n - 1)

RECURSIVE PadAll(_, _)
\* column alignment: every left segment padded to width + 1, then the status
PadAll(es, width) ==
    IF es = <<>>
    THEN <<>>
    ELSE <<<<Head(es).left \o Spaces(width + 1 - Len(Head(es).left)) \o Head(es).node.status,
             Head(es).node>>>>
         \o PadAll(Tail(es), width)

RECURSIVE Plain(_)
Plain(es) == IF es = <<>> THEN <<>> ELSE <<<<Head(es).left, Head(es).node>>>> \o Plain(Tail(es))

\* the renderer's algorithm: Vec<(label, node)>
render_forest(nodes, with_status) ==
    LET roots == SortAsc({id \in NodeIds(nodes) : IsRoot(nodes, id)})
        es    == Walk(nodes, roots, "")
        width == SetMax({0} \cup {Len(es[i].left) : i \in 1..Len(es)})
    IN  IF with_status THEN PadAll(es, width) ELSE Plain(es)

----------------------------------------------------------------------------
(* Bounds of the model and the inputs drawn within them *)

\* most fibers in a snapshot delivered to the engine
MaxNodes == 2

\* most actors in a snapshot delivered to the engine
MaxActors == 1

\* how far a usize may run away from the indices of a list (towards 2^64 after
\* a wrap, or past the end) before the model stops following it
MaxWrap == 1

OptionOf(S) == {None} \cup {Some(x) : x \in S}

RECURSIVE SnapshotsOf(_, _)
\* the Vecs of at most n nodes of U, no id twice, in any order
SnapshotsOf(U, n) ==
    IF n = 0
    THEN {<<>>}
    ELSE LET shorter == SnapshotsOf(U, n - 1)
         IN  shorter \cup
             {e \in {Append(d, f) : d \in {x \in shorter : Len(x) = n - 1}, f \in U} :
                 UniqueIds(e)}

\* those listed by ascending id
Ascending(d) == \A i \in 1..(Len(d) - 1) : d[i].id < d[i + 1].id

RECURSIVE DumpOf(_)
\* a dump text of k lines, "1\n2\n...k"
DumpOf(k) == IF k <= 1 THEN <<ToString(k)>> ELSE DumpOf(k - 1) \o <<NL, ToString(k)>>

\* zio::model::Fiber values the engine is fed: a root, a child of fiber 1, or
\* (fiber 1 itself) its own parent; the dump of fiber k has k lines
Fibers ==
    {[id |-> i, parent_id |-> p, status |-> "Running", dump |-> DumpOf(i)] :
        i \in 1..MaxNodes, p \in OptionOf({1})}

FiberSnapshots == {d \in SnapshotsOf(Fibers, MaxNodes) : Ascending(d)}

\* akka::model::ActorTreeNode values the engine is fed
ActorTreeNodes ==
    {[id |-> i, parent_id |-> p, name |-> "actor"] : i \in 1..MaxActors, p \in OptionOf({1})}

ActorSnapshots == {d \in SnapshotsOf(ActorTreeNodes, MaxActors) : Ascending(d)}

\* fiber snapshots for the renderer alone: at most MaxForest fibers with ids in
\* 1..MaxForest, in any order, each a root, a child of any id (in the snapshot
\* or not, itself included); fiber k's dump is the one line "k"
MaxForest == 3

StatusOf(i) == IF i = 1 THEN "Running" ELSE IF i = 2 THEN "Suspended" ELSE "Done"

ForestFibers ==
    {[id |-> i, parent_id |-> p, status |-> StatusOf(i), dump |-> <<ToString(i)>>] :
        i \in 1..MaxForest, p \in OptionOf(1..MaxForest)}

ForestSnapshots == SnapshotsOf(ForestFibers, MaxForest)

\* the renderer is a pure function: its values on the snapshots the model draws
FiberForests == [d \in FiberSnapshots \cup ForestSnapshots |-> render_forest(d, TRUE)]

ActorForests == [d \in ActorSnapshots |-> render_forest(d, FALSE)]

\* tree::tree_list_widget(nodes, with_status): Vec<(label, node)>
tree_list_widget(nodes, with_status) ==
    IF with_status /\ nodes \in DOMAIN FiberForests
    THEN FiberForests[nodes]
    ELSE IF ~with_status /\ nodes \in DOMAIN ActorForests
         THEN ActorForests[nodes]
         ELSE render_forest(nodes, with_status)

RECURSIVE MapLabel(_)
MapLabel(l) == IF l = <<>> THEN <<>> ELSE <<Head(l)[1]>> \o MapLabel(Tail(l))

RECURSIVE MapDump(_)
MapDump(l) == IF l = <<>> THEN <<>> ELSE <<Head(l)[2].dump>> \o MapDump(Tail(l))

----------------------------------------------------------------------------
(* Bounded history buffers: `if len > MAX { pop_front } ; push_back` *)

MAX_FIBER_COUNT_MEASURES == 100

MAX_SLICK_MEASURES == 25

MAX_HIKARI_MEASURES == 100

MAX_ACTOR_COUNT_MEASURES == 25

\* a deque that drops its newest value instead
pop_back(q) == IF q = <<>> THEN q ELSE SubSeq(q, 1, Len(q) - 1)

\* VecDeque::pop_front, the popped value dropped
pop_front(q) == IF q = <<>> THEN q ELSE Tail(q)

\* VecDeque::push_back
push_back(q, v) == Append(q, v)

----------------------------------------------------------------------------
(* ZMXTab: [fibers : StatefulList<String>, selected_fiber_dump : (String, u16),
            fiber_dump_all : Vec<String>, scroll : u16, fiber_counts : VecDeque] *)

FiberStatus == {"Done", "Finishing", "Running", "Suspended"}

\* ZMXTab::new
ZMXTab_new ==
    [fibers              |-> StatefulList_with_items(<<>>),
     selected_fiber_dump |-> <<<<>>, 1>>,
     fiber_dump_all      |-> <<>>,
     scroll              |-> 0,
     fiber_counts        |-> <<>>]

\* append_fiber_count that never evicts
ZMXTab_append_fiber_count_unbounded(t, c) ==
    [t EXCEPT !.fiber_counts = push_back(t.fiber_counts, c)]

\* ZMXTab::append_fiber_count
ZMXTab_append_fiber_count(t, c) ==
    LET q == IF Len(t.fiber_counts) > MAX_FIBER_COUNT_MEASURES
             THEN pop_front(t.fiber_counts)
             ELSE t.fiber_counts
    IN  [t EXCEPT !.fiber_counts = push_back(q, c)]

\* on_fiber_change that shows the first dump, whatever is selected
ZMXTab_on_fiber_change_first(t) ==
    IF InBounds(t.fiber_dump_all, 0)
    THEN Ok([t EXCEPT !.selected_fiber_dump = prepare_dump(t.fiber_dump_all[1]),
                      !.scroll = 0])
    ELSE Panicked(t, OutOfBounds)

\* ZMXTab::on_fiber_change
ZMXTab_on_fiber_change(t) ==
    LET n == IF IsSome(t.fibers.state) THEN Unwrap(t.fibers.state) ELSE 0
    IN  IF InBounds(t.fiber_dump_all, n)
        THEN Ok([t EXCEPT !.selected_fiber_dump = prepare_dump(t.fiber_dump_all[n + 1]),
                          !.scroll = 0])
        ELSE Panicked(t, OutOfBounds)

\* ZMXTab::select_prev_fiber
ZMXTab_select_prev_fiber(t) ==
    IF t.fibers.items # <<>>
    THEN LET r == StatefulList_previous(t.fibers)
             u == [t EXCEPT !.fibers = r.st]
         IN  IF r.fault # NoFault THEN Panicked(u, r.fault) ELSE ZMXTab_on_fiber_change(u)
    ELSE Ok(t)

\* select_next_fiber that also starts the tally history afresh
ZMXTab_select_next_fiber_afresh(t) ==
    IF t.fibers.items # <<>>
    THEN LET r == StatefulList_next(t.fibers)
             u == [t EXCEPT !.fibers = r.st, !.fiber_counts = <<>>]
         IN  IF r.fault # NoFault THEN Panicked(u, r.fault) ELSE ZMXTab_on_fiber_change(u)
    ELSE Ok(t)

\* ZMXTab::select_next_fiber
ZMXTab_select_next_fiber(t) ==
    IF t.fibers.items # <<>>
    THEN LET r == StatefulList_next(t.fibers)
             u == [t EXCEPT !.fibers = r.st]
         IN  IF r.fault # NoFault THEN Panicked(u, r.fault) ELSE ZMXTab_on_fiber_change(u)
    ELSE Ok(t)

RECURSIVE MapNodeDump(_)
MapNodeDump(d) == IF d = <<>> THEN <<>> ELSE <<Head(d).dump>> \o MapNodeDump(Tail(d))

\* replace_fiber_dump that takes the dumps from the snapshot as delivered
ZMXTab_replace_fiber_dump_unordered(t, dump) ==
    LET fib_labels == MapLabel(tree_list_widget(dump, TRUE))
        fib_dumps  == MapNodeDump(dump)
        u          == [t EXCEPT !.fibers = [state |-> Some(0), items |-> fib_labels]]
    IN  IF InBounds(fib_dumps, 0)
        THEN Ok([u EXCEPT !.selected_fiber_dump = prepare_dump(fib_dumps[1]),
                          !.fiber_dump_all = fib_dumps])
        ELSE Panicked(u, OutOfBounds)

\* ZMXTab::replace_fiber_dump
ZMXTab_replace_fiber_dump(t, dump) ==
    LET list       == tree_list_widget(dump, TRUE)
        fib_labels == MapLabel(list)
        fib_dumps  == MapDump(list)
        u          == [t EXCEPT !.fibers = [state |-> Some(0), items |-> fib_labels]]
    IN  IF InBounds(fib_dumps, 0)
        THEN Ok([u EXCEPT !.selected_fiber_dump = prepare_dump(fib_dumps[1]),
                          !.fiber_dump_all = fib_dumps])
        ELSE Panicked(u, OutOfBounds)

\* ZMXTab::scroll_up
ZMXTab_scroll_up(t) == IF t.scroll > 0 THEN [t EXCEPT !.scroll = t.scroll - 1] ELSE t

\* ZMXTab::scroll_down
ZMXTab_scroll_down(t) ==
    IF t.scroll < t.selected_fiber_dump[2] THEN [t EXCEPT !.scroll = t.scroll + 1] ELSE t

\* the number of fibers of dump in status s
CountStatus(dump, s) == Cardinality({i \in 1..Len(dump) : dump[i].status = s})

\* append_fiber_dump_for_counts that also shows the dump from its top again
ZMXTab_append_fiber_dump_for_counts_rewinding(t, dump) ==
    ZMXTab_append_fiber_count([t EXCEPT !.scroll = 0],
        [done      |-> CountStatus(dump, "Done"),
         suspended |-> CountStatus(dump, "Suspended"),
         running   |-> CountStatus(dump, "Running"),
         finishing |-> CountStatus(dump, "Finishing")])

\* ZMXTab::append_fiber_dump_for_counts
ZMXTab_append_fiber_dump_for_counts(t, dump) ==
    ZMXTab_append_fiber_count(t,
        [done      |-> CountStatus(dump, "Done"),
         suspended |-> CountStatus(dump, "Suspended"),
         running   |-> CountStatus(dump, "Running"),
         finishing |-> CountStatus(dump, "Finishing")])

----------------------------------------------------------------------------
(* SlickTab: [has_hikari, slick_metrics : VecDeque, slick_config, hikari_metrics : VecDeque] *)

\* SlickTab::new
SlickTab_new ==
    [has_hikari     |-> FALSE,
     slick_metrics  |-> <<>>,
     slick_config   |-> [max_threads |-> 0, max_queue_size |-> 0],
     hikari_metrics |-> <<>>]

\* SlickTab::replace_slick_config
SlickTab_replace_slick_config(t, m) == [t EXCEPT !.slick_config = m]

\* SlickTab::append_slick_metrics
SlickTab_append_slick_metrics(t, m) ==
    LET q == IF Len(t.slick_metrics) > MAX_SLICK_MEASURES
             THEN pop_front(t.slick_metrics)
             ELSE t.slick_metrics
    IN  [t EXCEPT !.slick_metrics = push_back(q, m)]

\* SlickTab::append_hikari_metrics
SlickTab_append_hikari_metrics(t, m) ==
    LET q == IF Len(t.hikari_metrics) > MAX_HIKARI_MEASURES
             THEN pop_front(t.hikari_metrics)
             ELSE t.hikari_metrics
    IN  [t EXCEPT !.hikari_metrics = push_back(q, m)]

----------------------------------------------------------------------------
(* AkkaActorTreeTab: [actors : StatefulList<String>, actor_counts : VecDeque<u64>] *)

\* AkkaActorTreeTab::new
AkkaActorTreeTab_new == [actors |-> StatefulList_with_items(<<>>), actor_counts |-> <<>>]

\* AkkaActorTreeTab::update_actor_tree
AkkaActorTreeTab_update_actor_tree(t, actors) ==
    [t EXCEPT !.actors.items = MapLabel(tree_list_widget(actors, FALSE))]

\* AkkaActorTreeTab::select_prev_actor
AkkaActorTreeTab_select_prev_actor(t) ==
    LET r == StatefulList_previous(t.actors)
    IN  [st |-> [t EXCEPT !.actors = r.st], fault |-> r.fault]

\* AkkaActorTreeTab::select_next_actor
AkkaActorTreeTab_select_next_actor(t) ==
    LET r == StatefulList_next(t.actors)
    IN  [st |-> [t EXCEPT !.actors = r.st], fault |-> r.fault]

\* AkkaActorTreeTab::append_actor_count
AkkaActorTreeTab_append_actor_count(t, c) ==
    LET q == IF Len(t.actor_counts) > MAX_ACTOR_COUNT_MEASURES
             THEN pop_front(t.actor_counts)
             ELSE t.actor_counts
    IN  [t EXCEPT !.actor_counts = push_back(q, c)]

----------------------------------------------------------------------------
(* Events from outside *)

ExitReasons == OptionOf({"probe failed"})

Keys == {"q", "x"}

\* the usizes of the state stay within the model's reach
WrapBounded ==
    /\ tabs.index >= -MaxWrap
    /\ tabs.index <= Len(tabs.tabs) + MaxWrap
    /\ IsSome(actor_tree) /\ IsSome(Unwrap(actor_tree).actors.state) =>
          /\ Unwrap(Unwrap(actor_tree).actors.state) >= -MaxWrap
          /\ Unwrap(Unwrap(actor_tree).actors.state) <= MaxActors + MaxWrap

----------------------------------------------------------------------------
(* App *)

\* the tabs pushed with the Akka tab first
App_new_tabs_akka_first(zio_zmx_addr, jmx, akka) ==
    (IF akka THEN <<[kind |-> "AkkaActorTree", title |-> "Akka"]>> ELSE <<>>)
    \o (IF zio_zmx_addr THEN <<[kind |-> "ZMX", title |-> "ZIO"]>> ELSE <<>>)
    \o (IF jmx THEN <<[kind |-> "Slick", title |-> "Slick"]>> ELSE <<>>)

\* App::new: the tabs pushed for the inputs that are given
App_new_tabs(zio_zmx_addr, jmx, akka) ==
    (IF zio_zmx_addr THEN <<[kind |-> "ZMX", title |-> "ZIO"]>> ELSE <<>>)
    \o (IF jmx THEN <<[kind |-> "Slick", title |-> "Slick"]>> ELSE <<>>)
    \o (IF akka THEN <<[kind |-> "AkkaActorTree", title |-> "Akka"]>> ELSE <<>>)

\* App::new, each input given (TRUE) or absent (FALSE)
App_new(zio_zmx_addr, jmx, akka) ==
    /\ should_quit = FALSE
    /\ exit_reason = None
    /\ tabs = TabsState_new(App_new_tabs(zio_zmx_addr, jmx, akka))
    /\ zmx = IF zio_zmx_addr THEN Some(ZMXTab_new) ELSE None
    /\ slick = IF jmx THEN Some(SlickTab_new) ELSE None
    /\ actor_tree = IF akka THEN Some(AkkaActorTreeTab_new) ELSE None

Init ==
    /\ overflow_checks \in BOOLEAN
    /\ fault = NoFault
    /\ \E z, j, a \in BOOLEAN : App_new(z, j, a)
    /\ appended = [fiber |-> <<>>, slick |-> <<>>, hikari |-> <<>>, actor |-> <<>>]
    /\ delivered = None
    /\ ensemble = None

Alive == fault = NoFault

\* what the key handlers never touch
KeysLeave ==
    UNCHANGED <<overflow_checks, should_quit, exit_reason, slick, appended, delivered, ensemble>>

\* self.zmx.as_mut().unwrap().<method>(), r the method's result on Unwrap(zmx)
OnZmx(r) ==
    IF IsSome(zmx)
    THEN zmx' = Some(r.st) /\ fault' = r.fault
    ELSE zmx' = zmx /\ fault' = UnwrapNone

\* self.actor_tree.as_mut().unwrap().<method>(), r the method's result on Unwrap(actor_tree)
OnActorTree(r) ==
    IF IsSome(actor_tree)
    THEN actor_tree' = Some(r.st) /\ fault' = r.fault
    ELSE actor_tree' = actor_tree /\ fault' = UnwrapNone

\* App::on_up
on_up ==
    /\ Alive
    /\ LET c == TabsState_current(tabs)
       IN  IF c.fault # NoFault
           THEN fault' = c.fault /\ UNCHANGED <<zmx, actor_tree>>
           ELSE CASE c.st.kind = "ZMX" ->
                       OnZmx(ZMXTab_select_prev_fiber(Unwrap(zmx))) /\ UNCHANGED actor_tree
                  [] c.st.kind = "Slick" ->
                       UNCHANGED <<fault, zmx, actor_tree>>
                  [] c.st.kind = "AkkaActorTree" ->
                       OnActorTree(AkkaActorTreeTab_select_prev_actor(Unwrap(actor_tree))) /\ UNCHANGED zmx
    /\ UNCHANGED tabs
    /\ KeysLeave
    /\ WrapBounded'

\* App::on_down
on_down ==
    /\ Alive
    /\ LET c == TabsState_current(tabs)
       IN  IF c.fault # NoFault
           THEN fault' = c.fault /\ UNCHANGED <<zmx, actor_tree>>
           ELSE CASE c.st.kind = "ZMX" ->
                       OnZmx(ZMXTab_select_next_fiber(Unwrap(zmx))) /\ UNCHANGED actor_tree
                  [] c.st.kind = "Slick" ->
                       UNCHANGED <<fault, zmx, actor_tree>>
                  [] c.st.kind = "AkkaActorTree" ->
                       OnActorTree(AkkaActorTreeTab_select_next_actor(Unwrap(actor_tree))) /\ UNCHANGED zmx
    /\ UNCHANGED tabs
    /\ KeysLeave
    /\ WrapBounded'

\* App::on_right
on_right ==
    /\ Alive
    /\ tabs' = TabsState_next(tabs).st
    /\ fault' = TabsState_next(tabs).fault
    /\ UNCHANGED <<zmx, actor_tree>>
    /\ KeysLeave
    /\ WrapBounded'

\* App::on_left
on_left ==
    /\ Alive
    /\ tabs' = TabsState_previous(tabs).st
    /\ fault' = TabsState_previous(tabs).fault
    /\ UNCHANGED <<zmx, actor_tree>>
    /\ KeysLeave
    /\ WrapBounded'

\* App::on_page_up
on_page_up ==
    /\ Alive
    /\ LET c == TabsState_current(tabs)
       IN  IF c.fault # NoFault
           THEN fault' = c.fault /\ UNCHANGED zmx
           ELSE IF c.st.kind = "ZMX" THEN OnZmx(Ok(ZMXTab_scroll_up(Unwrap(zmx)))) ELSE UNCHANGED <<fault, zmx>>
    /\ UNCHANGED <<tabs, actor_tree>>
    /\ KeysLeave

\* App::on_page_down
on_page_down ==
    /\ Alive
    /\ LET c == TabsState_current(tabs)
       IN  IF c.fault # NoFault
           THEN fault' = c.fault /\ UNCHANGED zmx
           ELSE IF c.st.kind = "ZMX" THEN OnZmx(Ok(ZMXTab_scroll_down(Unwrap(zmx)))) ELSE UNCHANGED <<fault, zmx>>
    /\ UNCHANGED <<tabs, actor_tree>>
    /\ KeysLeave

\* App::quit
quit(error) ==
    /\ Alive
    /\ should_quit' = TRUE
    /\ exit_reason' = error
    /\ UNCHANGED <<overflow_checks, fault, tabs, zmx, slick, actor_tree, appended, delivered,
                   ensemble>>

\* App::on_key
on_key(c) ==
    IF c = "q"
    THEN quit(None)
    ELSE Alive /\ UNCHANGED vars

\* app.zmx's replace_fiber_dump on a fiber snapshot, the history variable left open
ingest_fiber_dump(dump) ==
    /\ Alive
    /\ IsSome(zmx)
    /\ zmx' = Some(ZMXTab_replace_fiber_dump(Unwrap(zmx), dump).st)
    /\ fault' = ZMXTab_replace_fiber_dump(Unwrap(zmx), dump).fault
    /\ UNCHANGED <<overflow_checks, should_quit, exit_reason, tabs, slick, actor_tree, appended,
                   ensemble>>

\* a fiber snapshot arrives
replace_fiber_dump(dump) == ingest_fiber_dump(dump) /\ UNCHANGED delivered

\* an actor-tree snapshot arrives: app.actor_tree's update_actor_tree
update_actor_tree(actors) ==
    /\ Alive
    /\ IsSome(actor_tree)
    /\ actor_tree' = Some(AkkaActorTreeTab_update_actor_tree(Unwrap(actor_tree), actors))
    /\ UNCHANGED <<overflow_checks, fault, should_quit, exit_reason, tabs, zmx, slick,
                   appended, delivered, ensemble>>

Next ==
    \/ on_up
    \/ on_down
    \/ on_left
    \/ on_right
    \/ on_page_up
    \/ on_page_down
    \/ \E c \in Keys : on_key(c)
    \/ \E e \in ExitReasons : quit(e)
    \/ \E d \in FiberSnapshots : replace_fiber_dump(d)
    \/ \E a \in ActorSnapshots : update_actor_tree(a)

Spec == Init /\ [][Next]_vars

----------------------------------------------------------------------------
(* The history buffers, followed up to and past their capacity.  The buffers
   of different tabs share no state, so the apps with exactly one tab are
   followed; the n-th value handed to a buffer is the n-th sample: n itself
   for the metrics and the actor count, and for the fiber tally a snapshot of
   n running fibers. *)

\* appends followed past the point where a buffer first evicts
HistSlack == 1

\* the n-th fiber snapshot of the tally stream
FiberPopulation(n) ==
    [i \in 1..n |-> [id |-> i, parent_id |-> None, status |-> "Running", dump |-> <<>>]]

SlickConfigs == {[max_threads |-> 8, max_queue_size |-> 100]}

\* the tally append_fiber_dump_for_counts hands to append_fiber_count
FiberCountOf(dump) ==
    Unwrap(SubSeq(ZMXTab_append_fiber_dump_for_counts(ZMXTab_new, dump).fiber_counts, 1, 1))

HistLeave ==
    UNCHANGED <<overflow_checks, fault, should_quit, exit_reason, tabs, delivered, ensemble>>

\* a tally snapshot arrives: app.zmx's append_fiber_dump_for_counts
append_fiber_dump_for_counts ==
    /\ Alive
    /\ IsSome(zmx)
    /\ Len(appended.fiber) < MAX_FIBER_COUNT_MEASURES + 1 + HistSlack
    /\ LET dump == FiberPopulation(Len(appended.fiber) + 1)
       IN  /\ zmx' = Some(ZMXTab_append_fiber_dump_for_counts(Unwrap(zmx), dump))
           /\ appended' = [appended EXCEPT !.fiber = Append(@, FiberCountOf(dump))]
    /\ UNCHANGED <<slick, actor_tree>>
    /\ HistLeave

\* a metrics reading arrives: app.slick's append_slick_metrics
append_slick_metrics ==
    /\ Alive
    /\ IsSome(slick)
    /\ Len(appended.slick) < MAX_SLICK_MEASURES + 1 + HistSlack
    /\ LET m == Len(appended.slick) + 1
       IN  /\ slick' = Some(SlickTab_append_slick_metrics(Unwrap(slick), m))
           /\ appended' = [appended EXCEPT !.slick = Append(@, m)]
    /\ UNCHANGED <<zmx, actor_tree>>
    /\ HistLeave

\* a pool reading arrives: app.slick's append_hikari_metrics
append_hikari_metrics ==
    /\ Alive
    /\ IsSome(slick)
    /\ Len(appended.hikari) < MAX_HIKARI_MEASURES + 1 + HistSlack
    /\ LET m == Len(appended.hikari) + 1
       IN  /\ slick' = Some(SlickTab_append_hikari_metrics(Unwrap(slick), m))
           /\ appended' = [appended EXCEPT !.hikari = Append(@, m)]
    /\ UNCHANGED <<zmx, actor_tree>>
    /\ HistLeave

\* the configuration arrives: app.slick's replace_slick_config
replace_slick_config(m) ==
    /\ Alive
    /\ IsSome(slick)
    /\ slick' = Some(SlickTab_replace_slick_config(Unwrap(slick), m))
    /\ UNCHANGED <<zmx, actor_tree, appended>>
    /\ HistLeave

\* an actor count arrives: app.actor_tree's append_actor_count
append_actor_count ==
    /\ Alive
    /\ IsSome(actor_tree)
    /\ Len(appended.actor) < MAX_ACTOR_COUNT_MEASURES + 1 + HistSlack
    /\ LET c == Len(appended.actor) + 1
       IN  /\ actor_tree' = Some(AkkaActorTreeTab_append_actor_count(Unwrap(actor_tree), c))
           /\ appended' = [appended EXCEPT !.actor = Append(@, c)]
    /\ UNCHANGED <<zmx, slick>>
    /\ HistLeave

InitHist == Init /\ Len(tabs.tabs) = 1

NextHist ==
    \/ append_fiber_dump_for_counts
    \/ append_slick_metrics
    \/ append_hikari_metrics
    \/ \E m \in SlickConfigs : replace_slick_config(m)
    \/ append_actor_count

SpecHist == InitHist /\ [][NextHist]_vars

----------------------------------------------------------------------------
(* The renderer as the fiber tab uses it: a fresh fiber tab takes in one
   snapshot of ForestSnapshots, which is kept in delivered *)

\* a fiber snapshot arrives and is remembered
observed_replace_fiber_dump(dump) == ingest_fiber_dump(dump) /\ delivered' = Some(dump)

InitForest == Init /\ Len(tabs.tabs) = 1 /\ IsSome(zmx)

NextForest == \E d \in ForestSnapshots : delivered = None /\ observed_replace_fiber_dump(d)

SpecForest == InitForest /\ [][NextForest]_vars

----------------------------------------------------------------------------
(* Properties *)

Min2(a, b) == IF a <= b THEN a ELSE b

\* the last n values of q
Suffix(q, n) == SubSeq(q, Len(q) - n + 1, Len(q))

\* the history buffers that exist, each with its capacity and the values appended to it
Histories ==
    (IF IsSome(zmx)
     THEN {[buf |-> Unwrap(zmx).fiber_counts, cap |-> MAX_FIBER_COUNT_MEASURES,
            log |-> appended.fiber]}
     ELSE {})
    \cup
    (IF IsSome(slick)
     THEN {[buf |-> Unwrap(slick).slick_metrics, cap |-> MAX_SLICK_MEASURES,
            log |-> appended.slick],
           [buf |-> Unwrap(slick).hikari_metrics, cap |-> MAX_HIKARI_MEASURES,
            log |-> appended.hikari]}
     ELSE {})
    \cup
    (IF IsSome(actor_tree)
     THEN {[buf |-> Unwrap(actor_tree).actor_counts, cap |-> MAX_ACTOR_COUNT_MEASURES,
            log |-> appended.actor]}
     ELSE {})

\* C1: every history buffer of capacity N holds min(totalAppends, N) values, so
\* never more than N
C1_HistoryLengthIsMinOfAppendsAndCapacity ==
    \A h \in Histories : Len(h.buf) = Min2(Len(h.log), h.cap)

\* the four buffers by name, in the state s = <<zmx, slick, actor_tree>>
BufferOf(name, z, sl, ac) ==
    CASE name = "fiber"  -> IF IsSome(z) THEN Unwrap(z).fiber_counts ELSE <<>>
      [] name = "slick"  -> IF IsSome(sl) THEN Unwrap(sl).slick_metrics ELSE <<>>
      [] name = "hikari" -> IF IsSome(sl) THEN Unwrap(sl).hikari_metrics ELSE <<>>
      [] name = "actor"  -> IF IsSome(ac) THEN Unwrap(ac).actor_counts ELSE <<>>

BufferNames == {"fiber", "slick", "hikari", "actor"}

\* the buffer is the last Len(buffer) values appended, oldest first
HistoryIsSuffix == \A h \in Histories : h.buf = Suffix(h.log, Len(h.buf))

\* a step that appends v to a buffer leaves it as it was with v at the tail,
\* less at most its head; a step that appends nothing to it leaves it alone
HistoryStepIsFifo ==
    \A n \in BufferNames :
        LET old == BufferOf(n, zmx, slick, actor_tree)
            new == BufferOf(n, zmx', slick', actor_tree')
        IN  IF appended'[n] = appended[n]
            THEN new = old
            ELSE LET v == appended'[n][Len(appended'[n])]
                 IN  /\ appended'[n] = Append(appended[n], v)
                     /\ new = Append(old, v) \/ (old # <<>> /\ new = Append(Tail(old), v))

\* C2: every history buffer is strict FIFO: an append drops at most the head
\* and puts the new value at the tail, so the buffer is always a contiguous
\* suffix of the values appended, in arrival order
C2_HistoryIsFifoSuffix == [][HistoryStepIsFifo]_vars /\ []HistoryIsSuffix

\* C2's case: a buffer that has evicted, and still holds the latest values
C2_Witness_Evicted ==
    \E h \in Histories :
        /\ Len(h.log) > Len(h.buf)
        /\ h.buf # <<>>
        /\ h.buf[Len(h.buf)] = h.log[Len(h.log)]

\* the selection lists that exist
SelectionLists ==
    (IF IsSome(zmx) THEN {Unwrap(zmx).fibers} ELSE {})
    \cup (IF IsSome(actor_tree) THEN {Unwrap(actor_tree).actors} ELSE {})

\* C3: the selected index of the fiber list and of the actor list, if present,
\* is less than the number of items, in every state the running program reaches
C3_SelectedIndexBelowLength ==
    Alive => \A l \in SelectionLists :
                 IsSome(l.state) => usize_lt(Unwrap(l.state), Len(l.items))

\* the kind of the active tab, "" when the index names no tab
ActiveKind == IF InBounds(tabs.tabs, tabs.index) THEN tabs.tabs[tabs.index + 1].kind ELSE ""

\* the selection list up and down act on, if the active tab has one
ActiveList(kind, z, ac) ==
    CASE kind = "ZMX" /\ IsSome(z) -> Some(Unwrap(z).fibers)
      [] kind = "AkkaActorTree" /\ IsSome(ac) -> Some(Unwrap(ac).actors)
      [] OTHER -> None

\* C4: up and down on a selection list without items, nothing selected, do not
\* fault and leave the selection absent
C4_EmptyListNavigationIsNoOp ==
    [][(on_up \/ on_down)
       /\ IsSome(ActiveList(ActiveKind, zmx, actor_tree))
       /\ Unwrap(ActiveList(ActiveKind, zmx, actor_tree)) = StatefulList_with_items(<<>>)
       => /\ fault' = NoFault
          /\ Unwrap(ActiveList(ActiveKind, zmx', actor_tree')).state = None]_vars

KeyEvent == on_up \/ on_down \/ on_left \/ on_right \/ on_page_up \/ on_page_down

\* C5: with no tab configured, every keyboard event leaves the state as it is
\* and does not fault
C5_KeysWithoutTabsAreNoOps ==
    [][KeyEvent /\ tabs.tabs = <<>> => UNCHANGED vars]_vars

\* C6: a snapshot taken in by the fiber tab or the actor tab with a non-empty
\* rendering leaves the selection at index 0
C6_SnapshotSelectsFirst ==
    [][/\ (\E d \in FiberSnapshots : replace_fiber_dump(d))
          /\ Unwrap(zmx').fibers.items # <<>>
          => Unwrap(zmx').fibers.state = Some(0)
       /\ (\E a \in ActorSnapshots : update_actor_tree(a))
          /\ Unwrap(actor_tree').actors.items # <<>>
          => Unwrap(actor_tree').actors.state = Some(0)]_vars

\* C7: an empty snapshot taken in by the fiber tab or the actor tab does not
\* fault and leaves the tab with no items and no selection
C7_EmptySnapshotClears ==
    [][/\ replace_fiber_dump(<<>>)
          => fault' = NoFault /\ Unwrap(zmx').fibers = StatefulList_with_items(<<>>)
       /\ update_actor_tree(<<>>)
          => fault' = NoFault
             /\ Unwrap(actor_tree').actors = StatefulList_with_items(<<>>)]_vars

\* C8: the fiber tab's scroll offset lies between 0 and the line count of the
\* displayed dump
C8_ScrollWithinDump ==
    Alive /\ IsSome(zmx) =>
        /\ Unwrap(zmx).scroll >= 0
        /\ Unwrap(zmx).scroll <= Unwrap(zmx).selected_fiber_dump[2]

\* C9: labels and dumps are as many, and the displayed dump and its line count
\* are those of the dump at the selected index
C9_DisplayedDumpIsSelected ==
    Alive /\ IsSome(zmx) =>
        LET t == Unwrap(zmx)
        IN  /\ Len(t.fibers.items) = Len(t.fiber_dump_all)
            /\ IsSome(t.fibers.state) =>
                  /\ InBounds(t.fiber_dump_all, Unwrap(t.fibers.state))
                  /\ t.selected_fiber_dump[1] = t.fiber_dump_all[Unwrap(t.fibers.state) + 1]
                  /\ t.selected_fiber_dump[2] =
                         lines_len(t.fiber_dump_all[Unwrap(t.fibers.state) + 1]) % U16

\* C9's case: after navigation the second of two fibers is selected and shown
C9_Witness_SecondSelected ==
    /\ Alive
    /\ IsSome(zmx)
    /\ Len(Unwrap(zmx).fibers.items) = 2
    /\ Unwrap(zmx).fibers.state = Some(1)
    /\ Unwrap(zmx).selected_fiber_dump = <<DumpOf(2), 2>>

RECURSIVE PathTo(_, _)
\* the ids from the root of id's tree down to id
PathTo(d, id) ==
    IF IsRoot(d, id)
    THEN <<id>>
    ELSE Append(PathTo(d, Unwrap(NodeOf(d, id).parent_id)), id)

\* p comes before q in depth-first pre-order with siblings ascending: p is a
\* proper prefix of q, or p has the smaller id where they first differ
PreOrderBefore(p, q) ==
    \/ Len(p) < Len(q) /\ SubSeq(q, 1, Len(p)) = p
    \/ \E k \in 1..Min2(Len(p), Len(q)) :
           SubSeq(p, 1, k - 1) = SubSeq(q, 1, k - 1) /\ p[k] < q[k]

\* the nodes of d listed by ascending id
SortById(d) == [k \in 1..Len(d) |-> NodeOf(d, SortAsc(NodeIds(d))[k])]

\* C10: a fiber snapshot with unique ids gives one entry per node, in
\* depth-first pre-order with roots and siblings ascending by id, whatever the
\* order of the input, the dumps in the same order, and index 0 selected
C10_ReplaceFiberDumpIsPreOrder ==
    Alive /\ IsSome(delivered) /\ delivered # Some(<<>>) =>
        LET d   == Unwrap(delivered)
            t   == Unwrap(zmx)
            all == t.fiber_dump_all
            ord == [k \in 1..Len(all) |-> CHOOSE i \in NodeIds(d) : NodeOf(d, i).dump = all[k]]
        IN  /\ Len(t.fibers.items) = Len(d)
            /\ Len(all) = Len(d)
            /\ \A k \in 1..Len(all) : \E i \in NodeIds(d) : NodeOf(d, i).dump = all[k]
            /\ {ord[k] : k \in 1..Len(all)} = NodeIds(d)
            /\ \A j, k \in 1..Len(all) :
                   j < k => PreOrderBefore(PathTo(d, ord[j]), PathTo(d, ord[k]))
            /\ t.fibers.items = MapLabel(render_forest(SortById(d), TRUE))
            /\ t.fibers.state = Some(0)

\* C10's case: fibers 3, 2 (child of 1) and 1 delivered in that order
C10_Witness_Example ==
    /\ Alive
    /\ delivered = Some(<<[id |-> 3, parent_id |-> None, status |-> "Done", dump |-> <<"3">>],
                          [id |-> 2, parent_id |-> Some(1), status |-> "Suspended",
                           dump |-> <<"2">>],
                          [id |-> 1, parent_id |-> None, status |-> "Running",
                           dump |-> <<"1">>]>>)
    /\ Unwrap(zmx).fiber_dump_all = <<<<"1">>, <<"2">>, <<"3">>>>
    /\ Unwrap(zmx).fibers.items = <<"|-#1   Running", "| L-#2 Suspended", "L-#3   Done">>
    /\ Unwrap(zmx).fibers.state = Some(0)

\* the events that mutate the engine: the keyboard events and the snapshots
MutationEvent ==
    \/ KeyEvent
    \/ \E d \in FiberSnapshots : replace_fiber_dump(d)
    \/ \E a \in ActorSnapshots : update_actor_tree(a)

\* C11: once should_quit is set, a keyboard event or snapshot does not fault
\* and leaves the tab index, the selections, the scroll offset, the item lists
\* and the history buffers as they were
C11_MutationAfterQuitIsNoOp ==
    [][should_quit /\ MutationEvent
       => fault' = NoFault /\ UNCHANGED <<tabs, zmx, slick, actor_tree>>]_vars

----------------------------------------------------------------------------------------------------------------------------------------
(* The tabs in use: keyboard events and snapshots together with the history
   methods.  Each buffer takes in its first value, and the fiber snapshots
   are those of root fibers, the shape of the tree being of no account
   here. *)

\* the fiber snapshots without parent links
FlatSnapshots == {d \in FiberSnapshots : \A k \in 1..Len(d) : d[k].parent_id = None}

\* a history method on a buffer that has taken in nothing yet
first_append ==
    \/ appended.fiber = <<>> /\ append_fiber_dump_for_counts
    \/ appended.slick = <<>> /\ append_slick_metrics
    \/ appended.hikari = <<>> /\ append_hikari_metrics
    \/ appended.actor = <<>> /\ append_actor_count

NextApp ==
    \/ on_up
    \/ on_down
    \/ on_left
    \/ on_right
    \/ on_page_up
    \/ on_page_down
    \/ \E d \in FlatSnapshots : replace_fiber_dump(d)
    \/ \E a \in ActorSnapshots : update_actor_tree(a)
    \/ first_append

SpecApp == Init /\ [][NextApp]_vars

\* what no keyboard event is routed to
KeysFrame == UNCHANGED <<should_quit, exit_reason, slick, appended>> /\ tabs'.tabs = tabs.tabs

\* C12: up and down change nothing but the selection of the active fiber or
\* actor tab, with the displayed dump and scroll offset that follow the fiber
\* selection, and nothing when the Slick tab is active; page-up and page-down
\* change nothing but the scroll offset of the active fiber tab; left and
\* right change nothing but the index of the TabsState; the tabs that are not
\* active, the item lists and the history buffers stay as they are
C12_KeysChangeOnlyTheirTarget ==
    [][/\ (on_up \/ on_down) =>
             /\ KeysFrame
             /\ tabs' = tabs
             /\ ActiveKind = "Slick" => UNCHANGED vars
             /\ ActiveKind # "ZMX" => zmx' = zmx
             /\ ActiveKind # "AkkaActorTree" => actor_tree' = actor_tree
             /\ ActiveKind = "ZMX" =>
                   zmx' = Some([Unwrap(zmx) EXCEPT
                                   !.fibers.state = Unwrap(zmx').fibers.state,
                                   !.selected_fiber_dump = Unwrap(zmx').selected_fiber_dump,
                                   !.scroll = Unwrap(zmx').scroll])
             /\ ActiveKind = "AkkaActorTree" =>
                   actor_tree' = Some([Unwrap(actor_tree) EXCEPT
                                          !.actors.state = Unwrap(actor_tree').actors.state])
       /\ (on_page_up \/ on_page_down) =>
             /\ KeysFrame
             /\ tabs' = tabs
             /\ actor_tree' = actor_tree
             /\ ActiveKind # "ZMX" => zmx' = zmx
             /\ ActiveKind = "ZMX" =>
                   zmx' = Some([Unwrap(zmx) EXCEPT !.scroll = Unwrap(zmx').scroll])
       /\ (on_left \/ on_right) => KeysFrame /\ zmx' = zmx /\ actor_tree' = actor_tree]_vars

\* C12's case: with all three tabs in use and every history buffer holding a
\* value, the second fiber is selected and scrolled, an actor is selected,
\* and the Slick tab is the active one
C12_Witness_AllTabsInUse ==
    /\ Alive
    /\ IsSome(zmx) /\ IsSome(slick) /\ IsSome(actor_tree)
    /\ ActiveKind = "Slick"
    /\ Unwrap(zmx).fibers.state = Some(1)
    /\ Unwrap(zmx).scroll = 1
    /\ Unwrap(actor_tree).actors.items # <<>>
    /\ Unwrap(actor_tree).actors.state = Some(0)
    /\ \A n \in BufferNames : BufferOf(n, zmx, slick, actor_tree) # <<>>

RECURSIVE NextTimes(_, _)
\* k calls of TabsState::next
NextTimes(t, k) == IF k = 0 THEN t ELSE NextTimes(TabsState_next(t).st, k - 1)

RECURSIVE PreviousTimes(_, _)
\* k calls of TabsState::previous
PreviousTimes(t, k) == IF k = 0 THEN t ELSE PreviousTimes(TabsState_previous(t).st, k - 1)

\* C13: with n >= 1 tabs the index is in 0..n-1 after any calls of next and
\* previous; next moves to (i+1) mod n without fault, previous undoes next
\* and next undoes previous, and n calls of either lead back to the start
C13_TabsRotate ==
    LET n == Len(tabs.tabs)
    IN  n >= 1 =>
            /\ tabs.index \in 0..(n - 1)
            /\ TabsState_next(tabs) = Ok([tabs EXCEPT !.index = (tabs.index + 1) % n])
            /\ TabsState_previous(tabs).fault = NoFault
            /\ TabsState_previous(tabs).st.tabs = tabs.tabs
            /\ TabsState_previous(tabs).st.index \in 0..(n - 1)
            /\ TabsState_previous(TabsState_next(tabs).st) = Ok(tabs)
            /\ TabsState_next(TabsState_previous(tabs).st) = Ok(tabs)
            /\ NextTimes(tabs, n) = tabs
            /\ PreviousTimes(tabs, n) = tabs

\* C13's case: the last of three tabs is current, from where next wraps to
\* the first and previous from the first wraps back
C13_Witness_LastOfThree ==
    /\ Len(tabs.tabs) = 3
    /\ tabs.index = 2
    /\ TabsState_next(tabs).st.index = 0
    /\ TabsState_previous(TabsState_next(tabs).st).st.index = 2

RECURSIVE ListNextTimes(_, _)
\* k calls of StatefulList::next
ListNextTimes(l, k) == IF k = 0 THEN l ELSE ListNextTimes(StatefulList_next(l).st, k - 1)

RECURSIVE ListPreviousTimes(_, _)
\* k calls of StatefulList::previous
ListPreviousTimes(l, k) ==
    IF k = 0 THEN l ELSE ListPreviousTimes(StatefulList_previous(l).st, k - 1)

\* C14: on a selection list with items and a selection, as many calls of next
\* as there are items lead back to the selection they started from, and so
\* do as many calls of previous
C14_ListNavigationIsCyclic ==
    Alive => \A l \in SelectionLists :
                 l.items # <<>> /\ IsSome(l.state) =>
                     /\ ListNextTimes(l, Len(l.items)).state = l.state
                     /\ ListPreviousTimes(l, Len(l.items)).state = l.state

\* the kinds of the tabs, in order
KindsOf(ts) == [k \in 1..Len(ts) |-> ts[k].kind]

\* a tab of each kind whose state is present, in the order ZMX, Slick,
\* AkkaActorTree, and no fault from a missing state
TabsMatchStates ==
    /\ KindsOf(tabs.tabs) =
           (IF IsSome(zmx) THEN <<"ZMX">> ELSE <<>>)
           \o (IF IsSome(slick) THEN <<"Slick">> ELSE <<>>)
           \o (IF IsSome(actor_tree) THEN <<"AkkaActorTree">> ELSE <<>>)
    /\ fault # UnwrapNone

\* no step changes the tabs or which states are present
TabsStay ==
    /\ tabs'.tabs = tabs.tabs
    /\ IsSome(zmx') = IsSome(zmx)
    /\ IsSome(slick') = IsSome(slick)
    /\ IsSome(actor_tree') = IsSome(actor_tree)

\* C15: there is a tab exactly for each state that App::new created, in the
\* order ZMX, Slick, AkkaActorTree; no event adds, removes or reorders tabs or
\* states, and dispatch to the current tab never unwraps an absent state
C15_TabsFixedAtConstruction == []TabsMatchStates /\ [][TabsStay]_vars

\* C15's case: the app of the ZIO and Akka inputs after snapshots, navigation
\* to the second tab and quit
C15_Witness_TwoTabsAfterEvents ==
    /\ Alive
    /\ KindsOf(tabs.tabs) = <<"ZMX", "AkkaActorTree">>
    /\ tabs.index = 1
    /\ Unwrap(zmx).fibers.items # <<>>
    /\ Unwrap(actor_tree).actors.state = Some(0)
    /\ should_quit

----------------------------------------------------------------------------
(* The fiber tab alone: tally snapshots up to and past the capacity of the
   history, with tree snapshots, selection and scrolling in between *)

InitTally == Init /\ Len(tabs.tabs) = 1 /\ IsSome(zmx)

NextTally ==
    \/ append_fiber_dump_for_counts
    \/ \E d \in FlatSnapshots : replace_fiber_dump(d)
    \/ on_up
    \/ on_down
    \/ on_page_up
    \/ on_page_down

SpecTally == InitTally /\ [][NextTally]_vars

\* C16 as stated: every call of append_fiber_dump_for_counts makes the tally
\* history one longer
C16_TallyGrowsByOne ==
    [][append_fiber_dump_for_counts
       => Len(Unwrap(zmx').fiber_counts) = Len(Unwrap(zmx).fiber_counts) + 1]_vars

\* C16, amended: every call of append_fiber_dump_for_counts puts the tally of
\* its snapshot at the tail of the history, whatever the snapshot and the
\* tree; the history is one longer while it held at most
\* MAX_FIBER_COUNT_MEASURES tallies, and otherwise as long as before, less
\* its oldest tally
C16_TallyAppendsOne ==
    [][append_fiber_dump_for_counts
       => LET old == Unwrap(zmx).fiber_counts
              new == Unwrap(zmx').fiber_counts
              v   == appended'.fiber[Len(appended'.fiber)]
          IN  /\ Len(appended'.fiber) = Len(appended.fiber) + 1
              /\ v = FiberCountOf(FiberPopulation(Len(appended'.fiber)))
              /\ new = IF Len(old) <= MAX_FIBER_COUNT_MEASURES
                       THEN Append(old, v)
                       ELSE Append(Tail(old), v)]_vars

\* C16's case: a tally taken in by a full history, with a tree in place
C16_Witness_FullHistory ==
    /\ Alive
    /\ IsSome(zmx)
    /\ Unwrap(zmx).fibers.items # <<>>
    /\ Len(appended.fiber) = MAX_FIBER_COUNT_MEASURES + 2
    /\ Len(Unwrap(zmx).fiber_counts) = MAX_FIBER_COUNT_MEASURES + 1

\* the fiber tab shows a dump from its first line, with the line count of
\* that dump
ShownFromTop(t) ==
    /\ t.scroll = 0
    /\ t.selected_fiber_dump[2] = lines_len(t.selected_fiber_dump[1]) % U16

\* C17: after up or down on the fiber tab with fibers listed, and after a
\* fiber snapshot is taken in, the scroll offset is 0 and the stored line
\* count is that of the dump now displayed
C17_DumpChangeResetsScroll ==
    [][/\ (on_up \/ on_down) /\ ActiveKind = "ZMX" /\ Unwrap(zmx).fibers.items # <<>>
          => ShownFromTop(Unwrap(zmx'))
       /\ (\E d \in FiberSnapshots : replace_fiber_dump(d)) /\ fault' = NoFault
          => ShownFromTop(Unwrap(zmx'))]_vars

\* C18: append_fiber_dump_for_counts changes nothing of the fiber tab but the
\* tally history: labels, selection, dumps, displayed dump and scroll offset
\* stay; replace_fiber_dump leaves the tally history as it is
C18_TreeAndTallyIndependent ==
    [][/\ append_fiber_dump_for_counts
          => zmx' = Some([Unwrap(zmx) EXCEPT !.fiber_counts = Unwrap(zmx').fiber_counts])
       /\ (\E d \in FlatSnapshots : replace_fiber_dump(d))
          => Unwrap(zmx').fiber_counts = Unwrap(zmx).fiber_counts]_vars

\* C18's case: the second fiber selected and its dump scrolled, with a full
\* tally history
C18_Witness_TreeAndTally ==
    /\ Alive
    /\ IsSome(zmx)
    /\ Unwrap(zmx).fibers.state = Some(1)
    /\ Unwrap(zmx).scroll = 2
    /\ Len(Unwrap(zmx).fiber_counts) = MAX_FIBER_COUNT_MEASURES + 1

\* C19: once set, should_quit stays set, and an exit reason once recorded is
\* neither cleared nor replaced
C19_QuitIsTerminalAndReasonStable ==
    [][/\ should_quit => should_quit'
       /\ should_quit /\ IsSome(exit_reason) => exit_reason' = exit_reason]_vars

----------------------------------------------------------------------------
(* main.rs: the Zookeeper ensemble status utility.  ensemble is
   [hosts   |-> the host of each host:port argument, in order,
    threads |-> each worker thread: "running", "finished" or "panicked",
    rx      |-> the messages (host, znode) sent and not yet received,
    status  |-> the HashMap from host to Option<ZNode>,
    pc      |-> where the main thread is: "receive", "join", "print", "exit",
    joined  |-> the threads joined so far,
    printed |-> the hosts printed so far].
   The port of an argument is used by its worker alone.  The Sender tx that
   main creates lives to the end of main, so the channel never closes while
   main receives. *)

Hosts == {"zk1", "zk2"}

\* the longest argument list followed
MaxArgs == 2

\* what get_status returns: a node's mode, or None without connection
ZNodes == OptionOf({"leader", "follower"})

ArgHosts == UNION {[1..n -> Hosts] : n \in 1..MaxArgs}

\* HashMap::insert
HashMap_insert(m, k, v) == [h \in DOMAIN m \cup {k} |-> IF h = k THEN v ELSE m[h]]

\* main up to the receive loop: the channel created, a thread spawned per
\* argument, the status map empty
main_spawn(hosts) ==
    [hosts   |-> hosts,
     threads |-> [i \in 1..Len(hosts) |-> "running"],
     rx      |-> <<>>,
     status  |-> <<>>,
     pc      |-> "receive",
     joined  |-> 0,
     printed |-> 0]

AppLeave ==
    UNCHANGED <<overflow_checks, should_quit, exit_reason, tabs, zmx, slick, actor_tree,
                appended, delivered>>

\* a worker thread: get_status, then txc.send((h, znode)); the send fails,
\* unnoticed, once main has left the receive loop and dropped rx
worker_send(i, znode) ==
    /\ Alive
    /\ IsSome(ensemble)
    /\ LET e == Unwrap(ensemble)
       IN  /\ i \in 1..Len(e.hosts)
           /\ e.threads[i] = "running"
           /\ ensemble' = Some([e EXCEPT !.threads[i] = "finished",
                                         !.rx = IF e.pc = "receive"
                                                THEN Append(@, <<e.hosts[i], znode>>)
                                                ELSE @])
    /\ UNCHANGED fault
    /\ AppLeave

\* a worker thread panics in call_nc (expect, drain or unwrap on the output
\* of nc) and sends nothing
worker_panic(i) ==
    /\ Alive
    /\ IsSome(ensemble)
    /\ LET e == Unwrap(ensemble)
       IN  /\ i \in 1..Len(e.hosts)
           /\ e.threads[i] = "running"
           /\ ensemble' = Some([e EXCEPT !.threads[i] = "panicked"])
    /\ UNCHANGED fault
    /\ AppLeave

\* main's receive loop, one turn: for (h, znode) in rx { status.insert(h, znode);
\* if status.len() == hosts_size { break } }; leaving the loop drops rx
receive ==
    /\ Alive
    /\ IsSome(ensemble)
    /\ LET e == Unwrap(ensemble)
       IN  /\ e.pc = "receive"
           /\ e.rx # <<>>
           /\ LET status == HashMap_insert(e.status, Head(e.rx)[1], Head(e.rx)[2])
                  break  == Cardinality(DOMAIN status) = Len(e.hosts)
              IN  ensemble' = Some([e EXCEPT !.status = status,
                                             !.rx = IF break THEN <<>> ELSE Tail(@),
                                             !.pc = IF break THEN "join" ELSE "receive"])
    /\ UNCHANGED fault
    /\ AppLeave

\* main's join loop, one turn: thread.join() of the next thread, which waits
\* for it to end; a worker's panic is ignored (let _ =)
join ==
    /\ Alive
    /\ IsSome(ensemble)
    /\ LET e == Unwrap(ensemble)
       IN  /\ e.pc = "join"
           /\ e.threads[e.joined + 1] # "running"
           /\ ensemble' = Some([e EXCEPT !.joined = @ + 1,
                                         !.pc = IF e.joined + 1 = Len(e.hosts)
                                                THEN "print" ELSE "join"])
    /\ UNCHANGED fault
    /\ AppLeave

\* main's print loop, one turn: status.get(h).unwrap() and println
print_host ==
    /\ Alive
    /\ IsSome(ensemble)
    /\ LET e == Unwrap(ensemble)
           h == e.hosts[e.printed + 1]
       IN  /\ e.pc = "print"
           /\ IF h \in DOMAIN e.status
              THEN /\ ensemble' = Some([e EXCEPT !.printed = @ + 1,
                                                 !.pc = IF e.printed + 1 = Len(e.hosts)
                                                        THEN "exit" ELSE "print"])
                   /\ UNCHANGED fault
              ELSE /\ fault' = UnwrapNone
                   /\ UNCHANGED ensemble
    /\ AppLeave

\* the utility started on a non-empty list of well-formed arguments
InitMain ==
    /\ overflow_checks \in BOOLEAN
    /\ fault = NoFault
    /\ should_quit = FALSE
    /\ exit_reason = None
    /\ tabs = TabsState_new(<<>>)
    /\ zmx = None
    /\ slick = None
    /\ actor_tree = None
    /\ appended = [fiber |-> <<>>, slick |-> <<>>, hikari |-> <<>>, actor |-> <<>>]
    /\ delivered = None
    /\ \E hosts \in ArgHosts : ensemble = Some(main_spawn(hosts))

NextMain ==
    \/ \E i \in 1..MaxArgs, znode \in ZNodes : worker_send(i, znode)
    \/ \E i \in 1..MaxArgs : worker_panic(i)
    \/ receive
    \/ join
    \/ print_host

\* every thread that can take a step is scheduled in the end
SpecMain == InitMain /\ [][NextMain]_vars /\ WF_vars(NextMain)

\* main has ended: every thread joined, every host printed with its status
Terminated ==
    LET e == Unwrap(ensemble)
    IN  /\ e.pc = "exit"
        /\ e.joined = Len(e.hosts)
        /\ e.printed = Len(e.hosts)
        /\ \A k \in 1..Len(e.hosts) : e.hosts[k] \in DOMAIN e.status

\* a worker thread has panicked and sent nothing
WorkerPanicked ==
    \E i \in 1..Len(Unwrap(ensemble).hosts) : Unwrap(ensemble).threads[i] = "panicked"

\* C20: for every non-empty argument list, two arguments with the same host
\* included, where every worker sends its message, main leaves the receive
\* loop, joins every worker, prints every host with a status and ends, without
\* a panic
C20_EnsembleStatusTerminates ==
    [](fault = NoFault) /\ <>(Terminated \/ WorkerPanicked)

====
